---------------------------- MODULE Spec2Model ----------------------------
(***************************************************************************)
(* Model of the typed columnar accessor layer (columnar/src/column/mod.rs) *)
(* and of the distinct metric's mergeable intermediate result              *)
(* (src/aggregation/metric/distinct.rs).                                   *)
(*                                                                         *)
(* A Column<T> is a pair (idx, values).  Doc ids and row ids are 0-based   *)
(* as in the source; TLA+ sequences are 1-based, so row r of a store is    *)
(* data[r + 1].  T is modelled as a signed integer type of Bits bits.      *)
(***************************************************************************)
EXTENDS Integers, Sequences, FiniteSets, TLC

VARIABLES
    column,   \* the Column<T> under test: [idx, values], immutable
    call,     \* the last Column operation: its arguments, buffers and result
    wire,     \* byte stream written by / handed to the Cardinality codec
    decoded,  \* result of the last Cardinality::deserialize
    field,    \* the fast field read by SegmentDistinctCollector::collect_block
    fruits,   \* the IntermediateDistinct values alive in the aggregation
    final     \* result of the last IntermediateDistinct::finalize

vars == <<column, call, wire, decoded, field, fruits, final>>

-----------------------------------------------------------------------------
(* Bounds of the model *)

\* documents of a column in the read-path specification
MaxDocs == 3
\* rows of a multivalued column in the read-path specification
MaxRows == 5
\* documents of a column in the range-query specification
MaxQDocs == 3
\* rows of a multivalued column in the range-query specification
MaxQRows == 2
\* the stored values are -ValMag and ValMag
ValMag == 1
\* width of the modelled signed type T and of the unsigned target type
Bits == 4
\* prior content of the docid buffer: at most one docid below MaxPriorId
MaxPriorId == 1
\* documents by which a multivalued row range may overshoot the docid range
MaxSlack == 1

Vals == {-ValMag, ValMag}

Pow2(n) == 2 ^ n

\* The values of the unsigned target type (u64 in the source).
UVals == 0 .. Pow2(Bits) - 1

-----------------------------------------------------------------------------
(* Helpers on sequences *)

SeqRange(s) == {s[i] : i \in 1 .. Len(s)}

\* The half-open integer range a..b of Rust, as an ascending sequence.
RangeSeq(a, b) == [i \in 1 .. (IF b > a THEN b - a ELSE 0) |-> a + i - 1]

RECURSIVE Dedup(_)
\* Vec::dedup: collapses runs of consecutive equal elements.
Dedup(s) ==
    IF Len(s) <= 1 THEN s
    ELSE LET rest == Dedup(Tail(s))
         IN  IF Head(s) = Head(rest) THEN rest ELSE <<Head(s)>> \o rest

SetMin(S) == CHOOSE x \in S : \A y \in S : x <= y
SetMax(S) == CHOOSE x \in S : \A y \in S : x >= y

-----------------------------------------------------------------------------
(* Cardinality and its one-byte code *)

Cardinalities == {"Full", "Optional", "Multivalued"}

Cardinality_to_code(c) ==
    CASE c = "Full" -> 0
      [] c = "Optional" -> 1
      [] c = "Multivalued" -> 2

Cardinality_try_from_code(code) ==
    CASE code = 0 -> [ok |-> TRUE, val |-> "Full"]
      [] code = 1 -> [ok |-> TRUE, val |-> "Optional"]
      [] code = 2 -> [ok |-> TRUE, val |-> "Multivalued"]
      [] OTHER -> [ok |-> FALSE, val |-> "InvalidData"]

-----------------------------------------------------------------------------
(* Monotonic mapping T -> unsigned *)

\* `v as u64` at the modelled width: the two's complement bit pattern.
AsUnsigned(v) == v % Pow2(Bits)

\* The sign bit is flipped, which moves the negative half below the
\* non-negative half.
to_u64(v) == (AsUnsigned(v) + Pow2(Bits - 1)) % Pow2(Bits)

-----------------------------------------------------------------------------
(* Value store: ColumnValues<T> *)

\* A store is [data, mapped]: the rows as written, and whether it is read
\* through the monotonic mapping (applied lazily on each access).
Store(data) == [data |-> data, mapped |-> FALSE]

ColumnValues_num_vals(vs) == Len(vs.data)

ColumnValues_get_val(vs, row) ==
    IF vs.mapped THEN to_u64(vs.data[row + 1]) ELSE vs.data[row + 1]

ColumnValues_min_value(vs) ==
    IF vs.mapped THEN to_u64(SetMin(SeqRange(vs.data))) ELSE SetMin(SeqRange(vs.data))

ColumnValues_max_value(vs) ==
    IF vs.mapped THEN to_u64(SetMax(SeqRange(vs.data))) ELSE SetMax(SeqRange(vs.data))

monotonic_map_column(vs) == [data |-> vs.data, mapped |-> TRUE]

\* Appends to hits the row ids of row_range, clamped to the store, whose value
\* lies in the inclusive range vr = <<lo, hi>>, in ascending order.
ColumnValues_get_row_ids_for_value_range(vs, vr, row_range, hits) ==
    LET last == IF row_range[2] < ColumnValues_num_vals(vs)
                THEN row_range[2] ELSE ColumnValues_num_vals(vs)
        InRange(r) == /\ vr[1] <= ColumnValues_get_val(vs, r)
                      /\ ColumnValues_get_val(vs, r) <= vr[2]
    IN  hits \o SelectSeq(RangeSeq(row_range[1], last), InRange)

-----------------------------------------------------------------------------
(* Address-space index: ColumnIndex *)

\* An index is [card, num_docs, non_null, start]:
\*   Full         no state;
\*   Optional     num_docs and the ascending doc ids that have a value;
\*   Multivalued  the start row of every document and the total row count.
FullIndex == [card |-> "Full", num_docs |-> 0, non_null |-> <<>>, start |-> <<>>]

OptionalIndex(n, docs) ==
    [card |-> "Optional", num_docs |-> n, non_null |-> docs, start |-> <<>>]

MultivaluedIndex(offsets) ==
    [card |-> "Multivalued", num_docs |-> 0, non_null |-> <<>>, start |-> offsets]

ColumnIndex_get_cardinality(idx) == idx.card

OptionalIndex_num_docs(idx) == idx.num_docs

MultiValueIndex_num_docs(idx) == Len(idx.start) - 1

\* Number of documents with a value below doc.
OptionalIndex_rank(idx, doc) ==
    Cardinality({i \in 1 .. Len(idx.non_null) : idx.non_null[i] < doc})

\* The rows of document doc, as a half-open row range.
ColumnIndex_value_row_ids(idx, doc) ==
    CASE idx.card = "Full" -> <<doc, doc + 1>>
      [] idx.card = "Optional" ->
            IF doc \in SeqRange(idx.non_null)
            THEN <<OptionalIndex_rank(idx, doc), OptionalIndex_rank(idx, doc) + 1>>
            ELSE <<0, 0>>
      [] idx.card = "Multivalued" -> <<idx.start[doc + 1], idx.start[doc + 2]>>

\* The row range of the docid range dr = <<from, to>>.  For a multivalued index
\* the range may run on into the documents after dr: slack of them.
ColumnIndex_docid_range_to_rowids(idx, dr, slack) ==
    CASE idx.card = "Full" -> dr
      [] idx.card = "Optional" ->
            <<OptionalIndex_rank(idx, dr[1]), OptionalIndex_rank(idx, dr[2])>>
      [] idx.card = "Multivalued" ->
            LET n == MultiValueIndex_num_docs(idx)
                to == IF dr[2] + slack < n THEN dr[2] + slack ELSE n
            IN  <<idx.start[dr[1] + 1], idx.start[to + 1]>>

\* The document at or after base that owns row id r, or -1.
MultiValueIndex_doc_of(idx, r, base) ==
    LET owners == {d \in base .. MultiValueIndex_num_docs(idx) - 1 :
                      idx.start[d + 1] <= r /\ r < idx.start[d + 2]}
    IN  IF owners = {} THEN -1 ELSE SetMin(owners)

\* Rewrites the row ids of ranks into the doc ids that own them.  Every entry
\* of the vector is rewritten.  A row id no document owns is a precondition
\* violation: ok is FALSE (the call panics).
ColumnIndex_select_batch_in_place(idx, ranks, base, dedup) ==
    CASE idx.card = "Full" -> [ok |-> TRUE, out |-> ranks]
      [] idx.card = "Optional" ->
            IF \A i \in 1 .. Len(ranks) : ranks[i] < Len(idx.non_null)
            THEN [ok |-> TRUE,
                  out |-> [i \in 1 .. Len(ranks) |-> idx.non_null[ranks[i] + 1]]]
            ELSE [ok |-> FALSE, out |-> <<>>]
      [] idx.card = "Multivalued" ->
            LET docs == [i \in 1 .. Len(ranks) |->
                            MultiValueIndex_doc_of(idx, ranks[i], base)]
            IN  IF \A i \in 1 .. Len(docs) : docs[i] >= 0
                THEN [ok |-> TRUE, out |-> IF dedup THEN Dedup(docs) ELSE docs]
                ELSE [ok |-> FALSE, out |-> <<>>]

-----------------------------------------------------------------------------
(* Column<T> *)

None == [some |-> FALSE, val |-> 0]
Some(v) == [some |-> TRUE, val |-> v]

Column(idx, values) == [idx |-> idx, values |-> values]

Column_get_cardinality(col) == ColumnIndex_get_cardinality(col.idx)

\* Mutant: a Full column counted like a multivalued one, whose last stored
\* entry is a sentinel.
Column_num_docs_sentinel(col) ==
    CASE col.idx.card = "Full" -> ColumnValues_num_vals(col.values) - 1
      [] col.idx.card = "Optional" -> OptionalIndex_num_docs(col.idx)
      [] col.idx.card = "Multivalued" -> MultiValueIndex_num_docs(col.idx)

Column_num_docs(col) ==
    CASE col.idx.card = "Full" -> ColumnValues_num_vals(col.values)
      [] col.idx.card = "Optional" -> OptionalIndex_num_docs(col.idx)
      [] col.idx.card = "Multivalued" -> MultiValueIndex_num_docs(col.idx)

Column_min_value(col) == ColumnValues_min_value(col.values)

Column_max_value(col) == ColumnValues_max_value(col.values)

\* Mutant: only the first row of the document is read.
Column_values_first_only(col, row_id) ==
    LET rows == ColumnIndex_value_row_ids(col.idx, row_id)
        ids == RangeSeq(rows[1], IF rows[2] > rows[1] THEN rows[1] + 1 ELSE rows[1])
    IN  [i \in 1 .. Len(ids) |-> ColumnValues_get_val(col.values, ids[i])]

\* The values of document row_id: the store read at each of its row ids, in
\* ascending row-id order.
Column_values(col, row_id) ==
    LET rows == ColumnIndex_value_row_ids(col.idx, row_id)
        ids == RangeSeq(rows[1], rows[2])
    IN  [i \in 1 .. Len(ids) |-> ColumnValues_get_val(col.values, ids[i])]

\* values(row_id).next()
Column_first(col, row_id) ==
    LET vs == Column_values(col, row_id)
    IN  IF Len(vs) = 0 THEN None ELSE Some(Head(vs))

\* Mutant: the row ids are returned as they are, not converted to doc ids.
Column_get_docids_no_select(col, value_range, selected_docid_range, docids, slack, dedup) ==
    LET rowid_range ==
            ColumnIndex_docid_range_to_rowids(col.idx, selected_docid_range, slack)
    IN  [ok |-> TRUE,
         out |-> ColumnValues_get_row_ids_for_value_range(col.values, value_range,
                                                          rowid_range, docids)]

\* Mutant: the whole store is searched, not the rows of the docid range.
Column_get_docids_all_rows(col, value_range, selected_docid_range, docids, slack, dedup) ==
    LET rowid_range == <<0, ColumnValues_num_vals(col.values)>>
        loaded ==
            ColumnValues_get_row_ids_for_value_range(col.values, value_range,
                                                     rowid_range, docids)
    IN  ColumnIndex_select_batch_in_place(col.idx, loaded,
                                          selected_docid_range[1], dedup)

\* Returns [ok, out]: whether the call returned, and docids after it.
Column_get_docids_for_value_range(col, value_range, selected_docid_range, docids, slack, dedup) ==
    LET rowid_range ==
            ColumnIndex_docid_range_to_rowids(col.idx, selected_docid_range, slack)
        loaded ==
            ColumnValues_get_row_ids_for_value_range(col.values, value_range,
                                                     rowid_range, docids)
    IN  ColumnIndex_select_batch_in_place(col.idx, loaded,
                                          selected_docid_range[1], dedup)

\* Mutant: the destination is not cleared.
Column_fill_vals_no_clear(col, row_id, output) ==
    output \o Column_values(col, row_id)

\* output.clear(); output.extend(self.values(row_id))
Column_fill_vals(col, row_id, output) ==
    LET cleared == <<>>
    IN  cleared \o Column_values(col, row_id)

Column_first_or_default_col(col, default_value) ==
    [column |-> col, default_value |-> default_value]

\* Mutant: the index is not carried over.
Column_to_u64_monotonic_full_idx(col) ==
    Column(FullIndex, monotonic_map_column(col.values))

Column_to_u64_monotonic(col) ==
    Column(col.idx, monotonic_map_column(col.values))

\* Mutant: unwrap_or_default() in place of unwrap_or(self.default_value).
FirstValueWithDefault_get_val_type_default(fv, idx) ==
    LET f == Column_first(fv.column, idx)
    IN  IF f.some THEN f.val ELSE 0

\* self.column.first(idx).unwrap_or(self.default_value)
FirstValueWithDefault_get_val(fv, idx) ==
    LET f == Column_first(fv.column, idx)
    IN  IF f.some THEN f.val ELSE fv.default_value

FirstValueWithDefault_min_value(fv) == ColumnValues_min_value(fv.column.values)

FirstValueWithDefault_max_value(fv) == ColumnValues_max_value(fv.column.values)

FirstValueWithDefault_num_vals(fv) ==
    CASE fv.column.idx.card = "Full" -> ColumnValues_num_vals(fv.column.values)
      [] fv.column.idx.card = "Optional" -> OptionalIndex_num_docs(fv.column.idx)
      [] fv.column.idx.card = "Multivalued" -> MultiValueIndex_num_docs(fv.column.idx)

-----------------------------------------------------------------------------
(* The columns a segment can hold, up to nd documents and nr rows *)

RECURSIVE SortedSeq(_)
\* The elements of a finite set of integers, ascending.
SortedSeq(S) ==
    IF S = {} THEN <<>>
    ELSE LET m == SetMin(S) IN <<m>> \o SortedSeq(S \ {m})

Rows(n) == [1 .. n -> Vals]

FullColumns(nd) ==
    UNION {{Column(FullIndex, Store(d)) : d \in Rows(n)} : n \in 0 .. nd}

OptionalColumns(nd) ==
    UNION {UNION {{Column(OptionalIndex(n, SortedSeq(S)), Store(d)) :
                      d \in Rows(Cardinality(S))} :
                  S \in SUBSET (0 .. n - 1)} :
           n \in 0 .. nd}

\* Start offsets: one per document plus the sentinel, ascending from 0.
StartOffsets(n, nr) ==
    {s \in [1 .. n + 1 -> 0 .. nr] :
        /\ s[1] = 0
        /\ \A i \in 1 .. n : s[i] <= s[i + 1]}

MultivaluedColumns(nd, nr) ==
    UNION {UNION {{Column(MultivaluedIndex(s), Store(d)) : d \in Rows(s[n + 1])} :
                  s \in StartOffsets(n, nr)} :
           n \in 0 .. nd}

Columns(nd, nr) ==
    FullColumns(nd) \cup OptionalColumns(nd) \cup MultivaluedColumns(nd, nr)

DocIds(col) == 0 .. Column_num_docs(col) - 1

-----------------------------------------------------------------------------
(* State before any operation *)

NoColumn == Column(FullIndex, Store(<<>>))

NoCall ==
    [op |-> "none", doc |-> 0, val |-> 0, vals |-> <<>>, pre |-> <<>>,
     out |-> <<>>, vr |-> <<0, 0>>, dr |-> <<0, 0>>, panicked |-> FALSE,
     default |-> 0, u64col |-> NoColumn]

NoWire == [bytes |-> <<>>, origin |-> "none"]

NoDecode == [done |-> FALSE, ok |-> FALSE, val |-> "none", input |-> <<>>,
             origin |-> "none"]

IdleCodec == /\ wire = NoWire
             /\ decoded = NoDecode

IdleDistinct == /\ field = <<>>
                /\ fruits = <<>>
                /\ final = [done |-> FALSE, of |-> 0, res |-> None]

-----------------------------------------------------------------------------
(* Read path: num_docs, values, fill_vals, first_or_default_col, *)
(* to_u64_monotonic                                               *)

\* prior content of the fill_vals buffer: at most MaxPriorLen values
MaxPriorLen == 1

PriorOutputs == UNION {[1 .. n -> Vals] : n \in 0 .. MaxPriorLen}

Init ==
    /\ column \in Columns(MaxDocs, MaxRows)
    /\ call = NoCall
    /\ IdleCodec
    /\ IdleDistinct

NumDocs ==
    /\ call.op = "none"
    /\ call' = [NoCall EXCEPT !.op = "num_docs", !.val = Column_num_docs(column)]
    /\ UNCHANGED <<column, wire, decoded, field, fruits, final>>

Values(doc) ==
    /\ call.op = "none"
    /\ call' = [NoCall EXCEPT !.op = "values", !.doc = doc,
                              !.vals = Column_values(column, doc)]
    /\ UNCHANGED <<column, wire, decoded, field, fruits, final>>

FillVals(doc, output) ==
    /\ call.op = "none"
    /\ call' = [NoCall EXCEPT !.op = "fill_vals", !.doc = doc, !.pre = output,
                              !.vals = Column_fill_vals(column, doc, output)]
    /\ UNCHANGED <<column, wire, decoded, field, fruits, final>>

FirstOrDefaultGetVal(default_value, doc) ==
    /\ call.op = "none"
    /\ call' = [NoCall EXCEPT
                  !.op = "first_or_default", !.doc = doc, !.default = default_value,
                  !.val = FirstValueWithDefault_get_val(
                              Column_first_or_default_col(column, default_value), doc)]
    /\ UNCHANGED <<column, wire, decoded, field, fruits, final>>

ToU64Monotonic ==
    /\ call.op = "none"
    /\ call' = [NoCall EXCEPT !.op = "to_u64_monotonic",
                              !.u64col = Column_to_u64_monotonic(column)]
    /\ UNCHANGED <<column, wire, decoded, field, fruits, final>>

\* The caller drops the result; the column is ready for the next call.
Return ==
    /\ call.op # "none"
    /\ call' = NoCall
    /\ UNCHANGED <<column, wire, decoded, field, fruits, final>>

Next ==
    \/ NumDocs
    \/ \E doc \in DocIds(column) : Values(doc)
    \/ \E doc \in DocIds(column), output \in PriorOutputs : FillVals(doc, output)
    \/ \E doc \in DocIds(column), x \in Vals \cup {0} : FirstOrDefaultGetVal(x, doc)
    \/ ToU64Monotonic
    \/ Return

Spec == Init /\ [][Next]_vars

-----------------------------------------------------------------------------
(* Properties of the read path *)

\* C4: over an Optional column, the adapter made by first_or_default_col(X)
\* returns X for a document without a value and the document's stored value
\* for a document with one.
C4_FirstOrDefaultOptional ==
    (call.op = "first_or_default" /\ column.idx.card = "Optional") =>
        LET docs == column.idx.non_null
            at == {i \in 1 .. Len(docs) : docs[i] = call.doc}
        IN  /\ at = {} => call.val = call.default
            /\ \A i \in at : call.val = column.values.data[i]

\* A document without a value, after a document with one, read with a default
\* that differs from every stored value.
C4_Witness ==
    /\ call.op = "first_or_default"
    /\ column.idx.card = "Optional"
    /\ column.idx.non_null = <<0>>
    /\ call.doc = 1
    /\ call.default = 0
    /\ call.val = 0

\* C5: a Full column over a store of N values has N documents, and values(d)
\* is the single value the store holds at row d.
C5_FullRowIsDoc ==
    column.idx.card = "Full" =>
        /\ call.op = "num_docs" => call.val = Len(column.values.data)
        /\ call.op = "values" => call.vals = <<column.values.data[call.doc + 1]>>

\* The second document of a Full column whose first two values differ.
C5_Witness ==
    /\ column.idx.card = "Full"
    /\ call.op = "values"
    /\ call.doc = 1
    /\ Len(column.values.data) >= 2
    /\ column.values.data[1] # column.values.data[2]
    /\ call.vals = <<column.values.data[2]>>

\* C6: a Multivalued column with start offsets s[0..n] has n documents, and
\* values(d) is the store read at rows s[d] .. s[d+1]-1 in ascending order,
\* empty when s[d] = s[d+1]; for offsets [0, 2, 2, 5] there are 3 documents,
\* values(1) is empty and values(2) is the values at rows 2, 3, 4.
C6_MultivaluedRows ==
    column.idx.card = "Multivalued" =>
        LET s == column.idx.start
            data == column.values.data
        IN  /\ call.op = "num_docs" => call.val = Len(s) - 1
            /\ call.op = "values" =>
                /\ Len(call.vals) = s[call.doc + 2] - s[call.doc + 1]
                /\ \A i \in 1 .. Len(call.vals) :
                       call.vals[i] = data[s[call.doc + 1] + i]
            /\ s = <<0, 2, 2, 5>> =>
                /\ call.op = "num_docs" => call.val = 3
                /\ (call.op = "values" /\ call.doc = 1) => call.vals = <<>>
                /\ (call.op = "values" /\ call.doc = 2) =>
                       call.vals = <<data[3], data[4], data[5]>>

\* The third document of the column with offsets [0, 2, 2, 5], whose three
\* values are not all equal.
C6_Witness ==
    /\ column.idx.card = "Multivalued"
    /\ column.idx.start = <<0, 2, 2, 5>>
    /\ call.op = "values"
    /\ call.doc = 2
    /\ Len(call.vals) = 3
    /\ call.vals[1] # call.vals[3]

\* C7: after fill_vals(doc, output) the buffer is exactly values(doc),
\* whatever it held before.
C7_FillValsClears ==
    call.op = "fill_vals" => call.vals = Column_values(column, call.doc)

\* A non-empty buffer filled from a document with two values.
C7_Witness ==
    /\ call.op = "fill_vals"
    /\ call.pre # <<>>
    /\ Len(call.vals) = 2
    /\ call.vals = Column_values(column, call.doc)

\* C8: to_u64_monotonic() keeps the index, hence the cardinality and the
\* number of documents; values(d) of the result is the image of values(d)
\* under the mapping, in the same order; the mapping preserves < and = on the
\* values of the column, so the result's min_value/max_value are the images of
\* the original ones and are the least and greatest mapped values.
C8_MonotonicRewrap ==
    call.op = "to_u64_monotonic" =>
        LET u == call.u64col
            data == column.values.data
            mapped == {ColumnValues_get_val(u.values, r) :
                          r \in 0 .. ColumnValues_num_vals(u.values) - 1}
        IN  /\ u.idx = column.idx
            /\ Column_get_cardinality(u) = Column_get_cardinality(column)
            /\ Column_num_docs(u) = Column_num_docs(column)
            /\ \A d \in DocIds(column) :
                   /\ Len(Column_values(u, d)) = Len(Column_values(column, d))
                   /\ \A i \in 1 .. Len(Column_values(column, d)) :
                          Column_values(u, d)[i] = to_u64(Column_values(column, d)[i])
            /\ mapped \subseteq UVals
            /\ \A a, b \in SeqRange(data) :
                   /\ a < b <=> to_u64(a) < to_u64(b)
                   /\ a = b <=> to_u64(a) = to_u64(b)
            /\ data # <<>> =>
                   /\ Column_min_value(u) = to_u64(Column_min_value(column))
                   /\ Column_max_value(u) = to_u64(Column_max_value(column))
                   /\ Column_min_value(u) = SetMin(mapped)
                   /\ Column_max_value(u) = SetMax(mapped)

\* An Optional column holding a negative and a positive value is rewrapped.
C8_Witness ==
    /\ call.op = "to_u64_monotonic"
    /\ column.idx.card = "Optional"
    /\ column.idx.num_docs > Len(column.idx.non_null)
    /\ SeqRange(column.values.data) = {-ValMag, ValMag}
    /\ Column_min_value(call.u64col) < Column_max_value(call.u64col)

-----------------------------------------------------------------------------
(* Range query: get_docids_for_value_range *)

\* What the caller's docid buffer may hold before the call.
QueryPriors == {<<>>} \cup {<<d>> : d \in 0 .. MaxPriorId - 1}

\* Inclusive value ranges <<lo, hi>>; lo > hi is the empty range.
ValueRanges == Vals \X Vals

\* The docid ranges from..to within the documents of the column.
DocRanges(col) ==
    {dr \in (0 .. Column_num_docs(col)) \X (0 .. Column_num_docs(col)) :
        dr[1] <= dr[2]}

InitQuery ==
    /\ column \in Columns(MaxQDocs, MaxQRows)
    /\ call = NoCall
    /\ IdleCodec
    /\ IdleDistinct

GetDocidsForValueRange(value_range, docid_range, docids, slack, dedup) ==
    LET r == Column_get_docids_for_value_range(column, value_range, docid_range,
                                               docids, slack, dedup)
    IN  /\ call.op = "none"
        /\ call' = [NoCall EXCEPT !.op = "get_docids", !.vr = value_range,
                                  !.dr = docid_range, !.pre = docids,
                                  !.panicked = ~r.ok, !.out = r.out]
        /\ UNCHANGED <<column, wire, decoded, field, fruits, final>>

\* What the index leaves open: how far a multivalued row range overshoots, and
\* whether the reverse translation collapses repeated doc ids.  Neither exists
\* for a Full or Optional index.
SlackChoices(col) == IF col.idx.card = "Multivalued" THEN 0 .. MaxSlack ELSE {0}

DedupChoices(col) == IF col.idx.card = "Multivalued" THEN BOOLEAN ELSE {FALSE}

NextQuery ==
    \/ \E value_range \in ValueRanges, docid_range \in DocRanges(column),
          docids \in QueryPriors, slack \in SlackChoices(column),
          dedup \in DedupChoices(column) :
           GetDocidsForValueRange(value_range, docid_range, docids, slack, dedup)
    \/ Return

SpecQuery == InitQuery /\ [][NextQuery]_vars

\* The stored values of document d, read off the index and the rows.
DocValues(col, d) ==
    CASE col.idx.card = "Full" -> {col.values.data[d + 1]}
      [] col.idx.card = "Optional" ->
            {col.values.data[i] : i \in {j \in 1 .. Len(col.idx.non_null) :
                                            col.idx.non_null[j] = d}}
      [] col.idx.card = "Multivalued" ->
            {col.values.data[r + 1] :
                r \in col.idx.start[d + 1] .. col.idx.start[d + 2] - 1}

HasValueIn(col, d, vr) == \E v \in DocValues(col, d) : vr[1] <= v /\ v <= vr[2]

Matching(col, vr) == {d \in DocIds(col) : HasValueIn(col, d, vr)}

NoDuplicates(s) == \A i, j \in 1 .. Len(s) : s[i] = s[j] => i = j

\* C1: on a Full or Optional column, with out empty and the docid range the
\* whole document span, out ends up holding exactly the documents that have a
\* value in the value range, each once.
C1_FullSpanExact ==
    (/\ call.op = "get_docids"
     /\ column.idx.card \in {"Full", "Optional"}
     /\ call.pre = <<>>
     /\ call.dr = <<0, Column_num_docs(column)>>) =>
        /\ ~call.panicked
        /\ NoDuplicates(call.out)
        /\ SeqRange(call.out) = Matching(column, call.vr)

\* An Optional column whose matching documents are not at their row ids.
C1_Witness ==
    /\ call.op = "get_docids"
    /\ column.idx.card = "Optional"
    /\ column.idx.num_docs = 3
    /\ column.idx.non_null = <<1, 2>>
    /\ call.pre = <<>>
    /\ call.dr = <<0, 3>>
    /\ call.out = <<1, 2>>

\* C2 as claimed: for every cardinality the call returns with the prior
\* content of out still at the front, unchanged, followed by docids that have
\* a value in the value range.
C2_PriorContentKept ==
    call.op = "get_docids" =>
        /\ ~call.panicked
        /\ Len(call.out) >= Len(call.pre)
        /\ SubSeq(call.out, 1, Len(call.pre)) = call.pre
        /\ \A i \in Len(call.pre) + 1 .. Len(call.out) :
               /\ call.out[i] \in DocIds(column)
               /\ HasValueIn(column, call.out[i], call.vr)

\* C10 as claimed: for every cardinality and every docid range within the
\* documents, with out empty, out holds only documents of the docid range that
\* have a value in the value range, and holds every such document.
C10_WithinSelectedRange ==
    (call.op = "get_docids" /\ call.pre = <<>>) =>
        /\ ~call.panicked
        /\ \A d \in SeqRange(call.out) :
               /\ call.dr[1] <= d /\ d < call.dr[2]
               /\ HasValueIn(column, d, call.vr)
        /\ \A d \in call.dr[1] .. call.dr[2] - 1 :
               HasValueIn(column, d, call.vr) => d \in SeqRange(call.out)

\* C10 amended: with out empty, out holds only documents at or after the start
\* of the docid range that have a value in the value range, and holds every
\* such document of the docid range; on a Full or Optional column it holds no
\* document at or after the end of the docid range.
C10_Amended ==
    (call.op = "get_docids" /\ call.pre = <<>>) =>
        /\ ~call.panicked
        /\ \A d \in SeqRange(call.out) :
               /\ d \in DocIds(column)
               /\ call.dr[1] <= d
               /\ column.idx.card \in {"Full", "Optional"} => d < call.dr[2]
               /\ HasValueIn(column, d, call.vr)
        /\ \A d \in call.dr[1] .. call.dr[2] - 1 :
               HasValueIn(column, d, call.vr) => d \in SeqRange(call.out)

\* A docid range that starts after document 0 and ends before the last
\* document of a Multivalued column: the matching document 2 after it is
\* returned with the matching document 1 inside it.
C10_Witness ==
    /\ call.op = "get_docids"
    /\ call.pre = <<>>
    /\ column.idx.card = "Multivalued"
    /\ column.idx.start = <<0, 0, 1, 2>>
    /\ call.dr = <<1, 2>>
    /\ call.out = <<1, 2>>
    /\ Matching(column, call.vr) = {1, 2}

-----------------------------------------------------------------------------
(* Cardinality wire codec *)

\* The values of a byte.
Bytes == 0 .. Pow2(8) - 1

\* u8::serialize: one byte appended to the writer.
u8_serialize(b, writer) == writer \o <<b>>

\* u8::deserialize: one byte taken off the reader, or an error at its end.
u8_deserialize(reader) ==
    IF reader = <<>>
    THEN [ok |-> FALSE, val |-> "UnexpectedEof", rest |-> reader]
    ELSE [ok |-> TRUE, val |-> Head(reader), rest |-> Tail(reader)]

Cardinality_serialize(c, writer) == u8_serialize(Cardinality_to_code(c), writer)

\* Mutant: an unknown code is read as the default variant.
Cardinality_deserialize_or_default(reader) ==
    LET cardinality_code == u8_deserialize(reader)
    IN  IF ~cardinality_code.ok
        THEN cardinality_code
        ELSE [ok |-> TRUE,
              val |-> IF Cardinality_try_from_code(cardinality_code.val).ok
                      THEN Cardinality_try_from_code(cardinality_code.val).val
                      ELSE "Full",
              rest |-> cardinality_code.rest]

\* Either `?` returns the error to the caller; otherwise Ok(cardinality).
Cardinality_deserialize(reader) ==
    LET cardinality_code == u8_deserialize(reader)
    IN  IF ~cardinality_code.ok
        THEN cardinality_code
        ELSE LET cardinality == Cardinality_try_from_code(cardinality_code.val)
             IN  [ok |-> cardinality.ok, val |-> cardinality.val,
                  rest |-> cardinality_code.rest]

InitCodec ==
    /\ column = NoColumn
    /\ call = NoCall
    /\ IdleCodec
    /\ IdleDistinct

\* A column's cardinality is written to an empty stream.
Serialize(c) ==
    /\ wire = NoWire
    /\ ~decoded.done
    /\ wire' = [bytes |-> Cardinality_serialize(c, <<>>), origin |-> c]
    /\ UNCHANGED <<column, call, decoded, field, fruits, final>>

\* A stream of at most one byte comes from storage, possibly corrupt.
OpenStored(bytes) ==
    /\ wire = NoWire
    /\ ~decoded.done
    /\ wire' = [bytes |-> bytes, origin |-> "storage"]
    /\ UNCHANGED <<column, call, decoded, field, fruits, final>>

Deserialize ==
    /\ wire # NoWire
    /\ ~decoded.done
    /\ LET r == Cardinality_deserialize(wire.bytes)
       IN  /\ decoded' = [done |-> TRUE, ok |-> r.ok, val |-> r.val,
                          input |-> wire.bytes, origin |-> wire.origin]
           /\ wire' = [wire EXCEPT !.bytes = r.rest]
    /\ UNCHANGED <<column, call, field, fruits, final>>

\* The reader and the result are dropped.
CloseStream ==
    /\ decoded.done
    /\ wire' = NoWire
    /\ decoded' = NoDecode
    /\ UNCHANGED <<column, call, field, fruits, final>>

NextCodec ==
    \/ \E c \in Cardinalities : Serialize(c)
    \/ \E bytes \in {<<>>} \cup {<<b>> : b \in Bytes} : OpenStored(bytes)
    \/ Deserialize
    \/ CloseStream

SpecCodec == InitCodec /\ [][NextCodec]_vars

\* C3: deserialize of the byte serialize wrote for a variant returns that
\* variant; deserialize of any byte that is the code of no variant returns an
\* error; a variant is returned only for its own code.
C3_CodecRoundTrip ==
    decoded.done =>
        /\ decoded.origin \in Cardinalities =>
               /\ Len(decoded.input) = 1
               /\ decoded.ok
               /\ decoded.val = decoded.origin
        /\ (/\ Len(decoded.input) = 1
            /\ \A c \in Cardinalities : decoded.input[1] # Cardinality_to_code(c)) =>
               ~decoded.ok
        /\ decoded.ok =>
               /\ decoded.val \in Cardinalities
               /\ decoded.input = <<Cardinality_to_code(decoded.val)>>
        /\ ~decoded.ok => decoded.val \notin Cardinalities

\* The first byte after the three codes is rejected.
C3_Witness ==
    /\ decoded.done
    /\ decoded.origin = "storage"
    /\ decoded.input = <<3>>
    /\ ~decoded.ok

\* Each variant comes back from its own byte.
C3_RoundTripReached ==
    /\ decoded.done
    /\ decoded.origin = "Multivalued"
    /\ decoded.ok
    /\ decoded.val = "Multivalued"

-----------------------------------------------------------------------------
(* Distinct metric: SegmentDistinctCollector and IntermediateDistinct *)

\* collectors and intermediate results alive at once
NumFruits == 2
\* documents of the fast field
FieldDocs == 2
\* the fast field's values are 0 .. MaxTerm
MaxTerm == 1
\* longest block of doc ids handed to collect_block
MaxBlock == 5
\* term_count is followed up to MaxCount
MaxCount == 4

\* IntermediateDistinct::default()
DefaultDistinct == [terms |-> {}, term_count |-> 0]

\* if self.terms.insert(val) { self.term_count += 1 }
IntermediateDistinct_collect(data, val) ==
    IF val \notin data.terms
    THEN [terms |-> data.terms \cup {val}, term_count |-> data.term_count + 1]
    ELSE data

IntermediateDistinct_merge_fruits(data, other) ==
    [terms |-> data.terms \cup other.terms,
     term_count |-> data.term_count + other.term_count]

\* n as f64: exact for every count the model reaches (below 2^53).
AsF64(n) == n

IntermediateDistinct_finalize(data) ==
    IF data.term_count = 0 THEN None ELSE Some(AsF64(data.term_count))

\* field.get_val(doc)
Field_get_val(f, doc) == f[doc + 1]

RECURSIVE CollectRemainder(_, _, _)
\* for &doc in iter.remainder()
CollectRemainder(data, docs, f) ==
    IF docs = <<>> THEN data
    ELSE CollectRemainder(IntermediateDistinct_collect(data, Field_get_val(f, Head(docs))),
                          Tail(docs), f)

RECURSIVE SegmentDistinctCollector_collect_block(_, _, _)
\* doc.chunks_exact(4): whole chunks of four documents, the four values read
\* before they are collected, then the remainder one by one.
SegmentDistinctCollector_collect_block(data, doc, f) ==
    IF Len(doc) >= 4
    THEN LET val1 == Field_get_val(f, doc[1])
             val2 == Field_get_val(f, doc[2])
             val3 == Field_get_val(f, doc[3])
             val4 == Field_get_val(f, doc[4])
             d1 == IntermediateDistinct_collect(data, val1)
             d2 == IntermediateDistinct_collect(d1, val2)
             d3 == IntermediateDistinct_collect(d2, val3)
             d4 == IntermediateDistinct_collect(d3, val4)
         IN  SegmentDistinctCollector_collect_block(d4, SubSeq(doc, 5, Len(doc)), f)
    ELSE CollectRemainder(data, doc, f)

\* SegmentDistinctCollector::from_req
SegmentDistinctCollector_from_req == [data |-> DefaultDistinct, live |-> TRUE]

Blocks == UNION {[1 .. n -> 0 .. FieldDocs - 1] : n \in 0 .. MaxBlock}

InitDistinct ==
    /\ column = NoColumn
    /\ call = NoCall
    /\ IdleCodec
    /\ field \in [1 .. FieldDocs -> 0 .. MaxTerm]
    /\ fruits = [i \in 1 .. NumFruits |-> SegmentDistinctCollector_from_req]
    /\ final = [done |-> FALSE, of |-> 0, res |-> None]

CollectBlock(i, doc) ==
    /\ fruits[i].live
    /\ fruits' = [fruits EXCEPT ![i].data =
                     SegmentDistinctCollector_collect_block(fruits[i].data, doc, field)]
    /\ UNCHANGED <<column, call, wire, decoded, field, final>>

\* self.merge_fruits(other): other is moved into the call.
MergeFruits(i, j) ==
    /\ i # j
    /\ fruits[i].live /\ fruits[j].live
    /\ fruits[i].data.term_count + fruits[j].data.term_count <= MaxCount
    /\ fruits' = [fruits EXCEPT
                    ![i].data = IntermediateDistinct_merge_fruits(fruits[i].data,
                                                                  fruits[j].data),
                    ![j].live = FALSE]
    /\ UNCHANGED <<column, call, wire, decoded, field, final>>

\* A collector for a further segment takes the place of a moved value.
FromReq(j) ==
    /\ ~fruits[j].live
    /\ fruits' = [fruits EXCEPT ![j] = SegmentDistinctCollector_from_req]
    /\ UNCHANGED <<column, call, wire, decoded, field, final>>

Finalize(i) ==
    /\ fruits[i].live
    /\ final' = [done |-> TRUE, of |-> i,
                 res |-> IntermediateDistinct_finalize(fruits[i].data)]
    /\ UNCHANGED <<column, call, wire, decoded, field, fruits>>

NextDistinct ==
    \/ \E i \in 1 .. NumFruits, doc \in Blocks : CollectBlock(i, doc)
    \/ \E i, j \in 1 .. NumFruits : MergeFruits(i, j)
    \/ \E j \in 1 .. NumFruits : FromReq(j)
    \/ \E i \in 1 .. NumFruits : Finalize(i)

SpecDistinct == InitDistinct /\ [][NextDistinct]_vars

\* C9 as claimed: after any sequence of collect and merge_fruits operations
\* term_count is the number of distinct values in terms.
C9_TermCountIsDistinctCount ==
    \A i \in 1 .. NumFruits :
        fruits[i].live =>
            fruits[i].data.term_count = Cardinality(fruits[i].data.terms)

=============================================================================
